---- MODULE Spec2Model ----
(***************************************************************************)
(* Rock-paper-scissors particle simulation (rock_paper_scissors_sim.py).   *)
(*                                                                         *)
(* Lengths are fixed-point integers: one unit is 1/Scale of a pixel.  The  *)
(* source computes in floating point; every real-valued expression is      *)
(* evaluated here exactly where it is a comparison (on squared distances)  *)
(* and truncated toward zero to the fixed-point grid where it is stored.   *)
(* Fractional coefficients are pairs <<numerator, denominator>>.           *)
(***************************************************************************)
EXTENDS Integers, Sequences, FiniteSets, TLC

\* ---------------------------------------------------------------- bounds
\* largest initial population explored (sum of the three counts)
MaxUnits == 3
\* frame budget explored (the source sets 3000, line 16)
MAX_TIME == 2
\* fixed-point resolution: units per pixel
Scale == 10

\* ------------------------------------------------------------- constants
WIDTH == 960
HEIGHT == 960
CENTER_FORCE == <<9, 10>>
CENTER_X == (WIDTH * Scale) \div 2
CENTER_Y == (HEIGHT * Scale) \div 2
GROUP_COHESION == <<1, 10>>
GROUP_ALIGNMENT == <<1, 10>>
GROUP_RADIUS == 100
GROUP_SEPARATION == <<82, 100>>
GROUP_MIN_DISTANCE == 30
UNIT_RADIUS == 5
UNIT_SPEED == 2
MIN_DISTANCE == UNIT_RADIUS * 2
REPULSION_FACTOR == 4
REPULSION_RADIUS == 150
RANDOM_MOVEMENT == <<1, 2>>

None == -1

\* ------------------------------------------------------------ arithmetic
\* a / b truncated toward zero (b > 0)
Quot(a, b) == IF a >= 0 THEN a \div b ELSE -((-a) \div b)

Sq(a) == a * a

RECURSIVE IsqrtFrom(_, _)
IsqrtFrom(n, x) ==
    LET y == (x + n \div x) \div 2
    IN  IF y >= x THEN x ELSE IsqrtFrom(n, y)

\* floor of the square root
Isqrt(n) == IF n <= 0 THEN 0 ELSE IsqrtFrom(n, n)

\* squared Euclidean length, and the length math.sqrt / math.hypot return
Len2(dx, dy) == Sq(dx) + Sq(dy)
Hypot(dx, dy) == Isqrt(Len2(dx, dy))

RECURSIVE SumTo(_, _)
\* f[1] + ... + f[n]
SumTo(f, n) == IF n = 0 THEN 0 ELSE f[n] + SumTo(f, n - 1)

\* the larger of two fractions
FracMax(a, b) == IF a[1] * b[2] >= b[1] * a[2] THEN a ELSE b

\* ------------------------------------------------------- cyclic relation
prey_type(t) == (t + 2) % 3

\* predator_type going round the cycle the way prey_type does
predator_type_AsPrey(t) == (t + 2) % 3

predator_type(t) == (t + 1) % 3

\* ----------------------------------------------------------------- state
VARIABLES
    units,          \* the agent list: unit_type, x, y, vx, vy, target (an index, or None)
    spatial_tree,   \* the positions the frame's cKDTree was built from
    pc,             \* position in main(): "tree", "target", "move", "collide",
                    \* "apply", "limit", "end", "done", "crashed"
    idx,            \* index of the unit the current for loop is at
    new_types,      \* the frame's dict of conversions: index -> type, or -1 when absent
    draws,          \* random.random() calls check_collision made for each unit this frame
    time_steps,
    running,
    printed,        \* the messages printed so far, in order
    status_message,
    seed,           \* where the run's stream of jitter draws starts
    initial_counts, \* main's scissors_count, rock_count, paper_count
    frame_start     \* history: the units as they were when the frame began

vars == <<units, spatial_tree, pc, idx, new_types, draws, time_steps, running, printed,
          status_message, seed, initial_counts, frame_start>>

NumUnits == Len(units)
Indices == 1..NumUnits

\* --------------------------------------------------------- initial inputs
\* initial placements: unit i starts at (x0 + (i-1)*dx, y0 + (i-1)*dy) pixels
Layouts ==
    { [x0 |-> 5,   y0 |-> 954, dx |-> 0,   dy |-> -3],    \* in contact, low x, high y
      [x0 |-> 954, y0 |-> 5,   dx |-> -3,  dy |-> 0],     \* in contact, high x, low y
      [x0 |-> 480, y0 |-> 480, dx |-> 0,   dy |-> 0],     \* all at the centre point
      [x0 |-> 100, y0 |-> 480, dx |-> 250, dy |-> 0],     \* far apart
      [x0 |-> 955, y0 |-> 480, dx |-> -10, dy |-> 0] }    \* just out of contact, at a wall

\* the stream of random.random() values the jitter consumes, as pairs of fractions
\* (x draw, y draw); a run starts anywhere in it and goes round
JitterStream ==
    << << <<1, 10>>, <<9, 10>> >>, << <<0, 1>>, <<1, 2>> >>, << <<99, 100>>, <<1, 4>> >> >>

InitCounts ==
    { c \in (0..MaxUnits) \X (0..MaxUnits) \X (0..MaxUnits) : c[1] + c[2] + c[3] <= MaxUnits }

Unit(unit_type, x, y) ==
    [unit_type |-> unit_type, x |-> x, y |-> y, vx |-> 0, vy |-> 0, target |-> None]

\* Python's range(a, b)
PyRange(a, b) == [n \in 1..(IF b > a THEN b - a ELSE 0) |-> a + n - 1]

\* the rows of positions the three loops of initialize_units index, in order
\* (lines 432, 436, 440)
InitRows(scissors_count, rock_count, paper_count) ==
    PyRange(0, scissors_count)
       \o PyRange(scissors_count, scissors_count + rock_count)
       \o PyRange(scissors_count + rock_count, scissors_count + rock_count + paper_count)

\* initialize_units raises: np.random.uniform refuses a negative size, and positions[i]
\* refuses a row outside -total_count..total_count-1
initialize_units_raises(scissors_count, rock_count, paper_count) ==
    LET total_count == scissors_count + rock_count + paper_count
        rows == InitRows(scissors_count, rock_count, paper_count)
    IN  \/ total_count < 0
        \/ \E n \in 1..Len(rows) : rows[n] < -total_count \/ rows[n] >= total_count

\* the list initialize_units returns; a negative row counts from the end of positions
initialize_units(scissors_count, rock_count, paper_count, layout) ==
    LET total_count == scissors_count + rock_count + paper_count
        rows == InitRows(scissors_count, rock_count, paper_count)
        scissors == Len(PyRange(0, scissors_count))
        rocks == Len(PyRange(scissors_count, scissors_count + rock_count))
        row(n) == IF rows[n] < 0 THEN rows[n] + total_count ELSE rows[n]
    IN  [n \in 1..Len(rows) |->
            Unit(IF n <= scissors THEN 0 ELSE IF n <= scissors + rocks THEN 1 ELSE 2,
                 (layout.x0 + row(n) * layout.dx) * Scale,
                 (layout.y0 + row(n) * layout.dy) * Scale)]

Init ==
    /\ initial_counts \in InitCounts
    /\ \E layout \in Layouts :
          units = initialize_units(initial_counts[1], initial_counts[2], initial_counts[3],
                                   layout)
    /\ spatial_tree = <<>>
    /\ pc = "tree"
    /\ idx = 0
    /\ new_types = <<>>
    /\ draws = <<>>
    /\ time_steps = 0
    /\ running = TRUE
    /\ printed = <<>>
    /\ status_message = [kind |-> "Running"]
    /\ seed \in 1..Len(JitterStream)
    /\ frame_start = units

\* ---------------------------------------------------------- SpatialTree
\* query_radius without the test that leaves the querying unit out
query_radius_WithSelf(i, radius) ==
    { j \in 1..Len(spatial_tree) :
        Len2(spatial_tree[j][1] - units[i].x, spatial_tree[j][2] - units[i].y)
           <= Sq(radius * Scale) }

\* indices of the tree's points within radius (pixels) of unit i's current position,
\* unit i itself left out; query_ball_point keeps points at distance <= radius
query_radius(i, radius) ==
    { j \in 1..Len(spatial_tree) :
        /\ Len2(spatial_tree[j][1] - units[i].x, spatial_tree[j][2] - units[i].y)
              <= Sq(radius * Scale)
        /\ j # i }

\* query_by_type without its type filter
query_by_type_AnyType(i, radius, unit_type) == query_radius(i, radius)

query_by_type(i, radius, unit_type) ==
    { j \in query_radius(i, radius) : units[j].unit_type = unit_type }

Dist2(i, j) == Len2(units[i].x - units[j].x, units[i].y - units[j].y)

\* the possible results of cKDTree(positions).query(query_point, k) over the units
\* type_units, zipped with the units (lines 128-150): the k nearest of them, as
\* (unit, distance) pairs by ascending distance; equal distances come in any order
NearestOf(i, type_units, k) ==
    LET kk == IF Cardinality(type_units) < k THEN Cardinality(type_units) ELSE k
    IN  { [n \in 1..kk |-> <<s[n], Isqrt(Dist2(i, s[n]))>>] :
            s \in { q \in [1..kk -> type_units] :
                      /\ \A a, b \in 1..kk : a < b =>
                            /\ q[a] # q[b]
                            /\ Dist2(i, q[a]) <= Dist2(i, q[b])
                      /\ \A j \in type_units :
                            (\A a \in 1..kk : q[a] # j) =>
                               \A a \in 1..kk : Dist2(i, q[a]) <= Dist2(i, j) } }

\* find_nearest_of_type keeping the querying unit among the candidates
find_nearest_of_type_WithSelf(i, unit_type, k) ==
    NearestOf(i, { j \in Indices : units[j].unit_type = unit_type }, k)

\* the possible results of find_nearest_of_type for unit i
find_nearest_of_type(i, unit_type, k) ==
    NearestOf(i, { j \in Indices : units[j].unit_type = unit_type /\ j # i }, k)

\* ------------------------------------------------------------------ Unit
\* find_target asking the index for every prey unit instead of the nearest three
find_target_NoCap(i) ==
    LET target_type == prey_type(units[i].unit_type)
    IN  UNION { IF Len(potential_targets) = 0 THEN {None}
                ELSE { potential_targets[n][1] : n \in 1..Len(potential_targets) }
                : potential_targets \in find_nearest_of_type(i, target_type, NumUnits) }

\* the values find_target can return for unit i
find_target(i) ==
    LET target_type == prey_type(units[i].unit_type)
    IN  UNION { IF Len(potential_targets) = 0 THEN {None}
                ELSE {potential_targets[1][1]}
                     \cup { potential_targets[n][1] : n \in 2..Len(potential_targets) }
                : potential_targets \in find_nearest_of_type(i, target_type, 3) }

find_threats(i) == query_by_type(i, REPULSION_RADIUS, predator_type(units[i].unit_type))

\* find_same_type_neighbors taking the neighbours of every type
find_same_type_neighbors_AnyType(i, radius) == query_radius(i, radius)

find_same_type_neighbors(i, radius) == query_by_type(i, radius, units[i].unit_type)

\* velocity toward the target (lines 229-238)
Attraction(i) ==
    LET t == units[i].target
        dx == units[t].x - units[i].x
        dy == units[t].y - units[i].y
        distance == Hypot(dx, dy)
        attraction_strength == FracMax(<<7, 10>>, <<2 - REPULSION_FACTOR, 2>>)
    IN  IF t # None /\ Len2(dx, dy) > 0
        THEN <<Quot(dx * UNIT_SPEED * Scale * attraction_strength[1],
                    distance * attraction_strength[2]),
               Quot(dy * UNIT_SPEED * Scale * attraction_strength[1],
                    distance * attraction_strength[2])>>
        ELSE <<0, 0>>

\* repulsion from one threat (lines 243-253)
ThreatForce(i, threat) ==
    LET dx == units[i].x - units[threat].x
        dy == units[i].y - units[threat].y
        distance == Hypot(dx, dy)
    IN  IF Len2(dx, dy) > 0
        THEN <<Quot(dx * REPULSION_FACTOR * (REPULSION_RADIUS * Scale - distance),
                    distance * REPULSION_RADIUS),
               Quot(dy * REPULSION_FACTOR * (REPULSION_RADIUS * Scale - distance),
                    distance * REPULSION_RADIUS)>>
        ELSE <<0, 0>>

\* sum of the two-component terms term[j] over the units j in the set S
VecSum(S, term) ==
    <<SumTo([j \in Indices |-> IF j \in S THEN term[j][1] ELSE 0], NumUnits),
      SumTo([j \in Indices |-> IF j \in S THEN term[j][2] ELSE 0], NumUnits)>>

Repulsion(i) == VecSum(find_threats(i), [j \in Indices |-> ThreatForce(i, j)])

\* separation from one same-type neighbour (lines 270-282)
SeparationTerm(i, neighbor) ==
    LET dx == units[i].x - units[neighbor].x
        dy == units[i].y - units[neighbor].y
        distance == Hypot(dx, dy)
    IN  IF Len2(dx, dy) < Sq(GROUP_MIN_DISTANCE * Scale) /\ Len2(dx, dy) > 0
        THEN <<Quot(dx * (GROUP_MIN_DISTANCE * Scale - distance),
                    distance * GROUP_MIN_DISTANCE),
               Quot(dy * (GROUP_MIN_DISTANCE * Scale - distance),
                    distance * GROUP_MIN_DISTANCE)>>
        ELSE <<0, 0>>

\* separation, cohesion and alignment with the same-type neighbours (lines 263-319)
Flocking(i) ==
    LET neighbors == find_same_type_neighbors(i, GROUP_RADIUS)
        n == Cardinality(neighbors)
        sep == VecSum(neighbors, [j \in Indices |-> SeparationTerm(i, j)])
        pos == VecSum(neighbors, [j \in Indices |-> <<units[j].x, units[j].y>>])
        center_x == Quot(pos[1], n)
        center_y == Quot(pos[2], n)
        dx == center_x - units[i].x
        dy == center_y - units[i].y
        distance == Hypot(dx, dy)
        cohesion == IF /\ (center_x # units[i].x \/ center_y # units[i].y)
                       /\ Len2(dx, dy) > Sq(GROUP_MIN_DISTANCE * Scale)
                    THEN <<Quot(dx * Scale * GROUP_COHESION[1], distance * GROUP_COHESION[2]),
                           Quot(dy * Scale * GROUP_COHESION[1], distance * GROUP_COHESION[2])>>
                    ELSE <<0, 0>>
        vel == VecSum(neighbors, [j \in Indices |-> <<units[j].vx, units[j].vy>>])
        avg_vx == Quot(vel[1], n)
        avg_vy == Quot(vel[2], n)
    IN  IF n = 0 THEN <<0, 0>>
        ELSE <<Quot(sep[1] * GROUP_SEPARATION[1], GROUP_SEPARATION[2]) + cohesion[1]
                  + Quot(avg_vx * GROUP_ALIGNMENT[1], GROUP_ALIGNMENT[2]),
               Quot(sep[2] * GROUP_SEPARATION[1], GROUP_SEPARATION[2]) + cohesion[2]
                  + Quot(avg_vy * GROUP_ALIGNMENT[1], GROUP_ALIGNMENT[2])>>

\* pull toward the centre of the area (lines 336-351)
CenterAttraction(i) ==
    LET dx == CENTER_X - units[i].x
        dy == CENTER_Y - units[i].y
        distance == Hypot(dx, dy)
    IN  IF Len2(dx, dy) > Sq((WIDTH * Scale) \div 4)
        THEN <<Quot(dx * CENTER_FORCE[1] * distance * 2, distance * CENTER_FORCE[2] * WIDTH),
               Quot(dy * CENTER_FORCE[1] * distance * 2, distance * CENTER_FORCE[2] * WIDTH)>>
        ELSE <<0, 0>>

\* (random.random() - 0.5) * RANDOM_MOVEMENT for the draw r (lines 354-355)
RandomMovement(r) == Quot((2 * r[1] - r[2]) * RANDOM_MOVEMENT[1] * Scale,
                          2 * r[2] * RANDOM_MOVEMENT[2])

\* the two draws the jitter of the unit at idx takes in this frame
NextJitter == JitterStream[((seed + time_steps * NumUnits + idx) % Len(JitterStream)) + 1]

\* anti-overlap push from one other unit (lines 363-372)
OverlapTerm(i, other) ==
    LET dx == units[i].x - units[other].x
        dy == units[i].y - units[other].y
        dist == Hypot(dx, dy)
    IN  IF /\ other # i
           /\ Len2(dx, dy) > 0
           /\ Len2(dx, dy) < Sq(MIN_DISTANCE * Scale)
           /\ Sq(21) * Len2(dx, dy) < Sq(20) * Sq(MIN_DISTANCE * Scale)
        THEN <<Quot(dx * 20 * (MIN_DISTANCE * Scale - dist), dist * MIN_DISTANCE),
               Quot(dy * 20 * (MIN_DISTANCE * Scale - dist), dist * MIN_DISTANCE)>>
        ELSE <<0, 0>>

GlobalSeparation(i) == VecSum(Indices, [j \in Indices |-> OverlapTerm(i, j)])

\* the velocity before the speed limit: the sum of all contributions (lines 225-374)
RawVelocity(i, jitter) ==
    LET a == Attraction(i)
        r == Repulsion(i)
        f == Flocking(i)
        c == CenterAttraction(i)
        g == GlobalSeparation(i)
    IN  <<a[1] + r[1] + f[1] + c[1] + RandomMovement(jitter[1]) + g[1],
          a[2] + r[2] + f[2] + c[2] + RandomMovement(jitter[2]) + g[2]>>

\* one component of v rescaled to length UNIT_SPEED, speed2 = |v|^2 (lines 379-380)
Rescaled(c, speed2) ==
    IF c >= 0 THEN Isqrt(Sq(c * UNIT_SPEED * Scale) \div speed2)
    ELSE -Isqrt(Sq(c * UNIT_SPEED * Scale) \div speed2)

\* move_towards_target without the speed limit
LimitSpeed_Off(v) == v

\* normalize velocity if it's too high (lines 376-380)
LimitSpeed(v) ==
    LET speed2 == Len2(v[1], v[2])
    IN  IF speed2 > Sq(UNIT_SPEED * Scale)
        THEN <<Rescaled(v[1], speed2), Rescaled(v[2], speed2)>>
        ELSE v

\* the bounds check with its upper branch missing
Bounce_LowOnly(p, v, size) ==
    IF p < UNIT_RADIUS * Scale THEN <<UNIT_RADIUS * Scale, Quot(-v, 2)>> ELSE <<p, v>>

\* keep one coordinate within bounds, bouncing with energy loss (lines 387-399):
\* the new <<coordinate, velocity component>>
Bounce(p, v, size) ==
    IF p < UNIT_RADIUS * Scale THEN <<UNIT_RADIUS * Scale, Quot(-v, 2)>>
    ELSE IF p > (size - UNIT_RADIUS) * Scale THEN <<(size - UNIT_RADIUS) * Scale, Quot(-v, 2)>>
    ELSE <<p, v>>

\* unit i after move_towards_target with the given jitter draws (lines 223-399)
move_towards_target(i, jitter) ==
    LET v == LimitSpeed(RawVelocity(i, jitter))
        bx == Bounce(units[i].x + v[1], v[1], WIDTH)
        by == Bounce(units[i].y + v[2], v[2], HEIGHT)
    IN  [units[i] EXCEPT !.x = bx[1], !.vx = bx[2], !.y = by[1], !.vy = by[2]]

\* check_collision drawing for every predator the tree query returns, without the
\* distance test
Contacts_NoDistanceTest(i) ==
    query_by_type(i, MIN_DISTANCE * 2, predator_type(units[i].unit_type))

\* check_collision asking the tree for MIN_DISTANCE / 2 instead of MIN_DISTANCE * 2
Contacts_HalfRadius(i) ==
    { j \in query_by_type(i, MIN_DISTANCE \div 2, predator_type(units[i].unit_type)) :
        Dist2(i, j) < Sq(MIN_DISTANCE * Scale) }

\* the units check_collision tests a draw against: predators the tree query returns
\* that are now closer than MIN_DISTANCE (lines 406-413)
Contacts(i) ==
    { j \in query_by_type(i, MIN_DISTANCE * 2, predator_type(units[i].unit_type)) :
        Dist2(i, j) < Sq(MIN_DISTANCE * Scale) }

\* check_collision returning the unit's prey type instead of its predator type
check_collision_ToPrey(i) ==
    LET contacts == Cardinality(Contacts(i))
    IN  {[new_type |-> None, draws |-> contacts]}
        \cup {[new_type |-> prey_type(units[i].unit_type), draws |-> d] : d \in 1..contacts}

\* the possible outcomes of check_collision for unit i: the type returned (None when
\* every draw failed or there was no contact) and the number of draws made; the loop
\* draws once per contact until a draw succeeds (lines 411-418)
check_collision(i) ==
    LET contacts == Cardinality(Contacts(i))
    IN  {[new_type |-> None, draws |-> contacts]}
        \cup {[new_type |-> predator_type(units[i].unit_type), draws |-> d] : d \in 1..contacts}

\* the end condition comparing every type with type 0 instead of the first unit's
check_end_condition_TypeZero == NumUnits = 0 \/ \A i \in Indices : units[i].unit_type = 0

check_end_condition == NumUnits = 0 \/ \A i \in Indices : units[i].unit_type = units[1].unit_type

\* number of units of a type
Remaining(unit_type) == Cardinality({i \in Indices : units[i].unit_type = unit_type})

\* the last type holding the largest count
IndexOfMax_Last(counts) ==
    CHOOSE w \in 1..3 :
        /\ \A t \in 1..3 : counts[t] <= counts[w]
        /\ \A t \in (w + 1)..3 : counts[t] < counts[w]

\* counts.index(max(counts)): the first type holding the largest count (line 528)
IndexOfMax(counts) ==
    CHOOSE w \in 1..3 :
        /\ \A t \in 1..3 : counts[t] <= counts[w]
        /\ \A t \in 1..(w - 1) : counts[t] < counts[w]

\* the frame's conversions applied to the unit list (lines 516-517)
Converted ==
    [i \in Indices |->
        IF new_types[i] # None THEN [units[i] EXCEPT !.unit_type = new_types[i]]
        ELSE units[i]]

\* ------------------------------------------------------------------ main
\* the next position of a for loop over the units, and where main goes after it
LoopNext(after) ==
    IF idx < NumUnits THEN pc' = pc /\ idx' = idx + 1
    ELSE pc' = after /\ idx' = 1

\* spatial_tree = SpatialTree(units) (line 487); cKDTree raises on an empty point list
BuildTree ==
    /\ pc = "tree"
    /\ IF NumUnits = 0
       THEN /\ pc' = "crashed"
            /\ UNCHANGED <<spatial_tree, idx>>
       ELSE /\ spatial_tree' = [i \in Indices |-> <<units[i].x, units[i].y>>]
            /\ pc' = "target"
            /\ idx' = 1
    /\ frame_start' = units
    /\ UNCHANGED <<units, new_types, draws, time_steps, running, printed, status_message,
                   seed, initial_counts>>

\* unit.target = unit.find_target(spatial_tree) (lines 495-496)
FindTarget ==
    /\ pc = "target"
    /\ \E target \in find_target(idx) :
          units' = [units EXCEPT ![idx].target = target]
    /\ LoopNext("move")
    /\ UNCHANGED <<spatial_tree, new_types, draws, time_steps, running, printed,
                   status_message, seed, initial_counts, frame_start>>

\* unit.move_towards_target(spatial_tree) (lines 504-505); leaving the loop,
\* new_types = {} (line 510)
Move ==
    /\ pc = "move"
    /\ units' = [units EXCEPT ![idx] = move_towards_target(idx, NextJitter)]
    /\ LoopNext("collide")
    /\ new_types' = IF idx < NumUnits THEN new_types ELSE [i \in Indices |-> None]
    /\ draws' = IF idx < NumUnits THEN draws ELSE [i \in Indices |-> 0]
    /\ UNCHANGED <<spatial_tree, time_steps, running, printed, status_message, seed,
                   initial_counts, frame_start>>

\* the collision loop setting a unit's new type at once instead of keeping it in
\* new_types
Collide_ApplyingAtOnce ==
    /\ pc = "collide"
    /\ \E result \in check_collision(idx) :
          /\ new_types' = [new_types EXCEPT ![idx] = result.new_type]
          /\ draws' = [draws EXCEPT ![idx] = result.draws]
          /\ units' = IF result.new_type # None
                      THEN [units EXCEPT ![idx].unit_type = result.new_type]
                      ELSE units
    /\ LoopNext("apply")
    /\ UNCHANGED <<spatial_tree, time_steps, running, printed, status_message, seed,
                   initial_counts, frame_start>>

\* new_type = unit.check_collision(spatial_tree), kept in new_types (lines 511-514)
Collide ==
    /\ pc = "collide"
    /\ \E result \in check_collision(idx) :
          /\ new_types' = [new_types EXCEPT ![idx] = result.new_type]
          /\ draws' = [draws EXCEPT ![idx] = result.draws]
    /\ LoopNext("apply")
    /\ UNCHANGED <<units, spatial_tree, time_steps, running, printed, status_message, seed,
                   initial_counts, frame_start>>

\* units[i].unit_type = new_type for every entry of new_types (lines 516-517)
ApplyNewTypes ==
    /\ pc = "apply"
    /\ units' = Converted
    /\ pc' = "limit"
    /\ UNCHANGED <<spatial_tree, idx, new_types, draws, time_steps, running, printed,
                   status_message, seed, initial_counts, frame_start>>

\* the time limit check (lines 519-533)
TimeLimitCheck ==
    /\ pc = "limit"
    /\ time_steps' = time_steps + 1
    /\ IF time_steps' >= MAX_TIME
       THEN LET counts == <<Remaining(0), Remaining(1), Remaining(2)>>
                winner_index == IndexOfMax(counts)
                message == [kind |-> "TimeLimit", winner |-> winner_index - 1,
                            count |-> counts[winner_index]]
            IN  /\ printed' = Append(printed, message)
                /\ status_message' = message
                /\ running' = FALSE
       ELSE UNCHANGED <<printed, status_message, running>>
    /\ pc' = "end"
    /\ UNCHANGED <<units, spatial_tree, idx, new_types, draws, seed, initial_counts, frame_start>>

\* the end condition check (lines 535-545), then the test of the while loop (line 475)
EndCheck ==
    /\ pc = "end"
    /\ IF check_end_condition
       THEN LET message == IF NumUnits > 0
                           THEN [kind |-> "Wins", winner |-> units[1].unit_type]
                           ELSE [kind |-> "NoUnits"]
            IN  /\ printed' = Append(printed, message)
                /\ status_message' = message
                /\ running' = FALSE
       ELSE UNCHANGED <<printed, status_message, running>>
    /\ pc' = IF running' THEN "tree" ELSE "done"
    /\ UNCHANGED <<units, spatial_tree, idx, new_types, draws, time_steps, seed,
                   initial_counts, frame_start>>

Next == BuildTree \/ FindTarget \/ Move \/ Collide \/ ApplyNewTypes \/ TimeLimitCheck \/ EndCheck

Spec == Init /\ [][Next]_vars

\* ------------------------------------- the first targeting pass, larger populations
\* populations large enough for find_target's k = 3 to cut the candidates
MaxTargetUnits == 5

TargetLayouts ==
    { [x0 |-> 100, y0 |-> 480, dx |-> 100, dy |-> 0],     \* a line, distinct distances
      [x0 |-> 5,   y0 |-> 954, dx |-> 0,   dy |-> -3],    \* a line, in contact
      [x0 |-> 480, y0 |-> 480, dx |-> 0,   dy |-> 0] }    \* all at the centre point

TargetCounts ==
    { c \in (0..MaxTargetUnits) \X (0..MaxTargetUnits) \X (0..MaxTargetUnits) :
        c[1] + c[2] + c[3] <= MaxTargetUnits }

InitTargeting ==
    /\ initial_counts \in TargetCounts
    /\ \E layout \in TargetLayouts :
          units = initialize_units(initial_counts[1], initial_counts[2], initial_counts[3],
                                   layout)
    /\ spatial_tree = <<>>
    /\ pc = "tree"
    /\ idx = 0
    /\ new_types = <<>>
    /\ draws = <<>>
    /\ time_steps = 0
    /\ running = TRUE
    /\ printed = <<>>
    /\ status_message = [kind |-> "Running"]
    /\ seed = 1
    /\ frame_start = units

\* main up to the end of its first targeting loop (lines 486-496)
NextTargeting == BuildTree \/ FindTarget

SpecTargeting == InitTargeting /\ [][NextTargeting]_vars

\* ------------------------------------------ the start of main, any integer counts
\* main takes int(sys.argv[1..3]) as they come (lines 458-461), negative or not
ArgumentCounts ==
    { c \in (-1..MaxUnits) \X (-1..MaxUnits) \X (-1..MaxUnits) :
        SumTo([n \in 1..3 |-> IF c[n] > 0 THEN c[n] ELSE 0], 3) <= MaxUnits }

InitArguments ==
    /\ initial_counts \in ArgumentCounts
    /\ IF initialize_units_raises(initial_counts[1], initial_counts[2], initial_counts[3])
       THEN units = <<>> /\ pc = "crashed"
       ELSE /\ \E layout \in Layouts :
                  units = initialize_units(initial_counts[1], initial_counts[2],
                                           initial_counts[3], layout)
            /\ pc = "tree"
    /\ spatial_tree = <<>>
    /\ idx = 0
    /\ new_types = <<>>
    /\ draws = <<>>
    /\ time_steps = 0
    /\ running = TRUE
    /\ printed = <<>>
    /\ status_message = [kind |-> "Running"]
    /\ seed = 1
    /\ frame_start = units

SpecArguments == InitArguments /\ [][NextTargeting]_vars

\* ================================================================ claims
InContact(i, j) == Dist2(i, j) < Sq(MIN_DISTANCE * Scale)

\* the units of unit i's predator type that are closer to it than MIN_DISTANCE
PredatorsInContact(i) ==
    { j \in Indices : units[j].unit_type = (units[i].unit_type + 1) % 3 /\ InContact(i, j) }

TypeChanged(i) == units'[i].unit_type # units[i].unit_type

\* C1: a unit's type changes only if a unit of its predator type (types before the
\* frame's conversions) is closer than MIN_DISTANCE at collision evaluation; the new
\* type is predator_type(old type); so the predator of a contact keeps its type unless
\* a predator of its own is in contact with it.
C1_ConversionSafety ==
    [][\A i \in Indices :
          TypeChanged(i) =>
             /\ units'[i].unit_type = (units[i].unit_type + 1) % 3
             /\ PredatorsInContact(i) # {}]_vars

\* a frame's conversions have just been applied and one unit was converted while the
\* predator in contact with it kept its type
C1_Witness ==
    /\ pc = "limit"
    /\ \E i, j \in Indices :
          /\ new_types[i] # None
          /\ units[i].unit_type = new_types[i]
          /\ new_types[j] = None
          /\ units[j].unit_type = new_types[i]
          /\ InContact(i, j)

\* C2: no unit's type changes while the collision loop evaluates the units; a type
\* changes only in the step that applies new_types after the loop, so every
\* evaluation of a frame reads the types from before the frame's conversions.
C2_AtomicConversion ==
    [][/\ pc = "collide" => \A i \in Indices : ~TypeChanged(i)
       /\ (\E i \in Indices : TypeChanged(i)) => pc = "apply" /\ pc' = "limit"
       /\ pc = "collide" =>
             \A i \in Indices :
                new_types'[i] # None => new_types'[i] = (units'[i].unit_type + 1) % 3]_vars

\* the collision loop has decided to convert a unit and is still evaluating a later
\* unit, for which the converted one is (before conversion) not a predator in contact
\* but would be one after conversion
C2_Witness ==
    /\ pc = "collide"
    /\ \E i \in 1..(idx - 1) :
          /\ new_types[i] # None
          /\ units[i].unit_type # new_types[i]
          /\ new_types[i] = (units[idx].unit_type + 1) % 3
          /\ InContact(idx, i)

\* the frame's collision loop is over for unit i
Evaluated(i) == (pc = "collide" /\ i < idx) \/ pc = "apply"

\* C3 as stated: check_collision makes at most one draw against COLLISION_CHANCE for
\* a unit in a frame, however many predators are in contact.
C3_OneDrawPerUnit ==
    \A i \in Indices : Evaluated(i) => draws[i] <= 1

\* C3 amended: check_collision makes one draw per predator in contact until a draw
\* succeeds: no draw without a contact, at most as many draws as contacts, all of
\* them when none succeeds, and at most one conversion of the unit.
C3_OneDrawPerContact ==
    \A i \in Indices :
       Evaluated(i) =>
          /\ draws[i] <= Cardinality(PredatorsInContact(i))
          /\ new_types[i] = None => draws[i] = Cardinality(PredatorsInContact(i))
          /\ new_types[i] # None => draws[i] >= 1

\* a unit with two predators in contact was converted by its second draw
C3_Witness ==
    \E i \in Indices :
       /\ Evaluated(i)
       /\ Cardinality(PredatorsInContact(i)) >= 2
       /\ draws[i] = 2
       /\ new_types[i] # None

\* whether all units share one type
Dominance == NumUnits > 0 /\ \A i \in Indices : units[i].unit_type = units[1].unit_type

\* C4 as stated: after a frame exactly one outcome is produced: a win when all units
\* share a type; otherwise the time limit result when time_steps has reached MAX_TIME;
\* otherwise none, and the loop goes on.  Nothing runs after a result.
C4_OneOutcome ==
    /\ (pc = "done" /\ Dominance) =>
          printed = <<[kind |-> "Wins", winner |-> units[1].unit_type]>>
    /\ (pc = "done" /\ ~Dominance /\ NumUnits > 0) =>
          /\ time_steps >= MAX_TIME
          /\ Len(printed) = 1
          /\ printed[1].kind = "TimeLimit"
    /\ (pc \in {"tree", "target", "move", "collide", "apply", "limit"}) => printed = <<>>

\* C5: a population of one type (n >= 1 units) ends at the first frame with the win
\* of that type printed, all n units being of that type.
C5_SingleTypeWins ==
    \A t \in 0..2 :
       (NumUnits >= 1 /\ initial_counts[t + 1] = NumUnits) =>
          /\ time_steps <= 1
          /\ Remaining(t) = NumUnits
          /\ time_steps = 1 =>
                \/ pc = "end" /\ printed = <<>>
                \/ /\ pc = "done"
                   /\ printed = <<[kind |-> "Wins", winner |-> t]>>
                   /\ status_message = [kind |-> "Wins", winner |-> t]
                   /\ ~running

\* a run of several units of one type other than type 0 has ended at frame 1
C5_Witness ==
    /\ pc = "done"
    /\ time_steps = 1
    /\ NumUnits >= 2
    /\ initial_counts[2] = NumUnits
    /\ printed = <<[kind |-> "Wins", winner |-> 1]>>

\* C6 as stated: with no units the first frame completes without error and the run
\* ends with the no-winner result.
C6_EmptyPopulationEnds ==
    NumUnits = 0 =>
       /\ pc # "crashed"
       /\ pc = "done" => printed = <<[kind |-> "NoUnits"]>>

\* C7 as stated: the run ends with a result within MAX_TIME frames: time_steps never
\* exceeds MAX_TIME, no frame starts once it is reached, the loop never stops without
\* a result.
C7_RunEnds ==
    /\ time_steps <= MAX_TIME
    /\ pc \in {"tree", "target", "move", "collide", "apply", "limit"} =>
          time_steps < MAX_TIME /\ running
    /\ pc # "crashed"
    /\ pc = "done" => printed # <<>> /\ ~running

\* C8: the time limit result names a type with the largest count, with that count,
\* and of the types with the largest count the first in the order 0, 1, 2.
C8_TimeLimitPlurality ==
    \A n \in 1..Len(printed) :
       printed[n].kind = "TimeLimit" =>
          /\ printed[n].count = Remaining(printed[n].winner)
          /\ \A t \in 0..2 : Remaining(t) <= printed[n].count
          /\ \A t \in 0..2 : t < printed[n].winner => Remaining(t) < printed[n].count

\* the time limit result was printed with two types tied for the largest count, and
\* the one named is not type 0
C8_Witness ==
    /\ pc = "done"
    /\ \E n \in 1..Len(printed) :
          /\ printed[n].kind = "TimeLimit"
          /\ printed[n].winner = 1
          /\ Remaining(2) = printed[n].count
          /\ Remaining(0) < printed[n].count

\* C9: every unit's x lies in [UNIT_RADIUS, WIDTH - UNIT_RADIUS] and its y in
\* [UNIT_RADIUS, HEIGHT - UNIT_RADIUS], initially and after every step.
C9_WithinBounds ==
    \A i \in Indices :
       /\ UNIT_RADIUS * Scale <= units[i].x
       /\ units[i].x <= (WIDTH - UNIT_RADIUS) * Scale
       /\ UNIT_RADIUS * Scale <= units[i].y
       /\ units[i].y <= (HEIGHT - UNIT_RADIUS) * Scale

\* a unit was put back on the high x wall and on the low y wall: it stands on each
\* with its velocity pointing inward, which only the bounce gives
C9_Witness ==
    \E i \in Indices :
       /\ units[i].x = (WIDTH - UNIT_RADIUS) * Scale
       /\ units[i].vx < 0
       /\ units[i].y = UNIT_RADIUS * Scale
       /\ units[i].vy > 0

\* C10: after every step each unit's velocity is at most UNIT_SPEED long, and no
\* step moves a unit by more than UNIT_SPEED.
C10_SpeedLimit ==
    [][\A i \in Indices :
          /\ Len2(units'[i].vx, units'[i].vy) <= Sq(UNIT_SPEED * Scale)
          /\ Len2(units'[i].x - units[i].x, units'[i].y - units[i].y)
                <= Sq(UNIT_SPEED * Scale)]_vars

\* the unit about to move has a summed velocity above the limit, and the unit moved
\* just before it was cut to the limit and then bounced off a wall
C10_Witness ==
    /\ pc = "move"
    /\ idx >= 2
    /\ Len2(RawVelocity(idx, NextJitter)[1], RawVelocity(idx, NextJitter)[2])
          > Sq(UNIT_SPEED * Scale)
    /\ units[idx - 1].x = UNIT_RADIUS * Scale
    /\ units[idx - 1].vx > 0

\* the velocities the alignment of unit i averages, read from the unit list us
AlignmentSum(i, us) ==
    VecSum(find_same_type_neighbors(i, GROUP_RADIUS),
           [j \in Indices |-> <<us[j].vx, us[j].vy>>])

\* C11: when a unit is about to move in a frame, the velocities its alignment term
\* reads from its same-type neighbours are the velocities those neighbours had when
\* the frame began (the end of the previous frame), whether or not a neighbour has
\* already moved in this frame
C11_AlignmentReadsPreviousFrame ==
    pc = "move" => AlignmentSum(idx, units) = AlignmentSum(idx, frame_start)

\* the anti-overlap push on unit i from a unit at (ox, oy) (lines 363-372)
OverlapPush(i, ox, oy) ==
    LET dx == units[i].x - ox
        dy == units[i].y - oy
        dist == Hypot(dx, dy)
    IN  IF /\ Len2(dx, dy) > 0
           /\ Len2(dx, dy) < Sq(MIN_DISTANCE * Scale)
           /\ Sq(21) * Len2(dx, dy) < Sq(20) * Sq(MIN_DISTANCE * Scale)
        THEN <<Quot(dx * 20 * (MIN_DISTANCE * Scale - dist), dist * MIN_DISTANCE),
               Quot(dy * 20 * (MIN_DISTANCE * Scale - dist), dist * MIN_DISTANCE)>>
        ELSE <<0, 0>>

\* the anti-overlap sum of unit i with every other unit where the unit list us has it
OverlapSum(i, us) ==
    VecSum(Indices \ {i}, [j \in Indices |-> OverlapPush(i, us[j].x, us[j].y)])

\* C12: when a unit is about to move in a frame, the anti-overlap pass gives it the
\* push computed from every other unit's position at the start of the frame, never
\* from a position already updated during the frame
C12_OverlapReadsFrameStart ==
    pc = "move" => /\ GlobalSeparation(idx) = OverlapSum(idx, units)
                   /\ OverlapSum(idx, units) = OverlapSum(idx, frame_start)

\* unit i is the only unit of its type
SoleOfType(i) == \A j \in Indices \ {i} : units[j].unit_type # units[i].unit_type

\* C13 as stated: once the targets of a frame are assigned, a unit that is the only
\* one of its type has no target and gets no flocking contribution
C13_SoleUnitNoTargetNoFlock ==
    pc = "move" =>
        \A i \in Indices : SoleOfType(i) =>
            units[i].target = None /\ Flocking(i) = <<0, 0>>

\* C13 (amended): once the targets of a frame are assigned, a unit that is the only
\* one of its type gets no flocking contribution, and it has a target exactly when a
\* unit of its prey type exists
C13_SoleUnitNoFlock ==
    pc = "move" =>
        \A i \in Indices : SoleOfType(i) =>
            /\ Flocking(i) = <<0, 0>>
            /\ units[i].target = None
                  <=> ~ \E j \in Indices : units[j].unit_type = (units[i].unit_type + 2) % 3

\* a unit alone of its type has acquired a target and has units of other types
\* inside its flocking radius
C13_Witness ==
    /\ pc = "move"
    /\ \E i \in Indices : /\ SoleOfType(i)
                          /\ units[i].target # None
                          /\ query_radius(i, GROUP_RADIUS) # {}

\* the units of unit i's prey type, unit i left out
PreyOf(i) == { j \in Indices \ {i} : units[j].unit_type = (units[i].unit_type + 2) % 3 }

\* C14: the target find_target assigns to a unit is none exactly when no other unit
\* of its prey type exists; otherwise it is another unit, of the prey type at that
\* time, with fewer than three prey units strictly nearer (one of the three nearest),
\* and it is the only prey unit when there is only one
C14_TargetSelection ==
    [][pc = "target" =>
          LET t == units'[idx].target
          IN  /\ t = None <=> PreyOf(idx) = {}
              /\ t # None =>
                    /\ t \in PreyOf(idx)
                    /\ t # idx
                    /\ Cardinality({ j \in PreyOf(idx) : Dist2(idx, j) < Dist2(idx, t) }) < 3
                    /\ Cardinality(PreyOf(idx)) = 1 => PreyOf(idx) = {t}]_vars

\* a unit with more than three prey units has a target that is not the nearest prey
C14_Witness ==
    /\ pc = "move"
    /\ \E i \in Indices :
          /\ Cardinality(PreyOf(i)) > 3
          /\ units[i].target # None
          /\ \E j \in PreyOf(i) : Dist2(i, j) < Dist2(i, units[i].target)

\* the units of type unit_type, unit i left out
OthersOfType(i, unit_type) == { j \in Indices \ {i} : units[j].unit_type = unit_type }

\* C15: every result of find_nearest_of_type is a list of (unit, distance) pairs in
\* ascending order of distance, of length min(k, number of other units of the type),
\* of units of the requested type only, never the querying unit, each with its
\* distance to the querying unit; it is empty when no other unit of the type exists
C15_NearestOfType ==
    pc = "target" =>
        \A i \in Indices, unit_type \in 0..2, k \in 1..3 :
            /\ find_nearest_of_type(i, unit_type, k) # {}
            /\ \A result \in find_nearest_of_type(i, unit_type, k) :
                  LET n == Cardinality(OthersOfType(i, unit_type))
                  IN  /\ Len(result) = IF n < k THEN n ELSE k
                      /\ \A a \in 1..Len(result) :
                            /\ result[a][1] \in OthersOfType(i, unit_type)
                            /\ Sq(result[a][2]) <= Dist2(i, result[a][1])
                            /\ Dist2(i, result[a][1]) < Sq(result[a][2] + 1)
                      /\ \A a, b \in 1..Len(result) : a < b => result[a][2] <= result[b][2]
                      /\ OthersOfType(i, unit_type) = {} => result = <<>>

\* a query that k cuts to three pairs at three different distances, and a query for
\* a type of which the querying unit is the only one
C15_Witness ==
    /\ pc = "target"
    /\ \E i \in Indices :
          /\ Cardinality(OthersOfType(i, (units[i].unit_type + 2) % 3)) > 3
          /\ \E result \in find_nearest_of_type(i, (units[i].unit_type + 2) % 3, 3) :
                result[1][2] < result[2][2] /\ result[2][2] < result[3][2]
          /\ OthersOfType(i, units[i].unit_type) = {}
          /\ find_nearest_of_type(i, units[i].unit_type, 3) = {<<>>}

\* the radii the program queries the tree with (lines 209, 265, 409), in pixels
QueryRadii == {MIN_DISTANCE * 2, GROUP_RADIUS, REPULSION_RADIUS}

\* squared distance from unit i's position to the indexed position of unit j
IndexedDist2(i, j) ==
    Len2(spatial_tree[j][1] - units[i].x, spatial_tree[j][2] - units[i].y)

\* C16 as stated: query_radius returns exactly the other units whose indexed position
\* is strictly nearer than radius, and query_by_type exactly those of them that have
\* the requested type
C16_QueryRadiusStrict ==
    Len(spatial_tree) > 0 =>
        \A i \in Indices, radius \in QueryRadii :
            /\ query_radius(i, radius) =
                  { j \in Indices \ {i} : IndexedDist2(i, j) < Sq(radius * Scale) }
            /\ \A unit_type \in 0..2 :
                  query_by_type(i, radius, unit_type) =
                     { j \in query_radius(i, radius) : units[j].unit_type = unit_type }

\* C16 (amended): query_radius returns exactly the other units whose indexed position
\* is at distance at most radius (a unit at exactly radius is returned), never the
\* unit itself, and query_by_type exactly those of them that have the requested type
C16_QueryRadiusInclusive ==
    Len(spatial_tree) > 0 =>
        \A i \in Indices, radius \in QueryRadii :
            /\ query_radius(i, radius) =
                  { j \in Indices \ {i} : IndexedDist2(i, j) <= Sq(radius * Scale) }
            /\ \A unit_type \in 0..2 :
                  query_by_type(i, radius, unit_type) =
                     { j \in Indices \ {i} : /\ IndexedDist2(i, j) <= Sq(radius * Scale)
                                             /\ units[j].unit_type = unit_type }

\* a same-type neighbour indexed at exactly GROUP_RADIUS is among the results, next
\* to a unit of another type within the radius that the type filter drops
C16_Witness ==
    /\ Len(spatial_tree) > 0
    /\ \E i \in Indices :
          /\ \E j \in find_same_type_neighbors(i, GROUP_RADIUS) :
                IndexedDist2(i, j) = Sq(GROUP_RADIUS * Scale)
          /\ query_radius(i, GROUP_RADIUS) # find_same_type_neighbors(i, GROUP_RADIUS)

\* C17: a run started with a negative count has failed at initialization: it has
\* stopped on the error and has no units
C17_NegativeCountFails ==
    (\E n \in 1..3 : initial_counts[n] < 0) => pc = "crashed" /\ NumUnits = 0

\* C18: the number of units is the sum of the three initial counts in every state of
\* a run, as it was when the frame began, every unit has one of the three types, and
\* the three per-type counts add up to the number of units
C18_PopulationConserved ==
    /\ NumUnits = initial_counts[1] + initial_counts[2] + initial_counts[3]
    /\ Len(frame_start) = NumUnits
    /\ \A i \in Indices : units[i].unit_type \in 0..2
    /\ Cardinality({ i \in Indices : units[i].unit_type = 0 })
          + Cardinality({ i \in Indices : units[i].unit_type = 1 })
          + Cardinality({ i \in Indices : units[i].unit_type = 2 }) = NumUnits

\* C19: prey_type and predator_type are inverse to each other and have no fixed point,
\* a unit's prey type is never its predator type, and the three places that use the
\* relation agree with it: an assigned target has the type two steps on, a threat
\* and a type taken in a collision are the type one step on
C19_ThreeCycle ==
    /\ \A t \in 0..2 : /\ prey_type(predator_type(t)) = t
                       /\ predator_type(prey_type(t)) = t
                       /\ prey_type(t) # t
                       /\ predator_type(t) # t
                       /\ prey_type(t) # predator_type(t)
    /\ pc = "move" =>
          \A i \in Indices : units[i].target # None =>
              units[i].unit_type = (units[units[i].target].unit_type + 1) % 3
    /\ pc \in {"move", "collide"} =>
          \A i \in Indices : \A j \in find_threats(i) :
              units[j].unit_type = (units[i].unit_type + 1) % 3
    /\ pc = "apply" =>
          \A i \in Indices : new_types[i] # None =>
              new_types[i] = (units[i].unit_type + 1) % 3

\* a frame in which a unit has a target, a unit has a threat and a unit is converted
C19_Witness ==
    /\ pc = "apply"
    /\ \E i \in Indices : units[i].target # None
    /\ \E i \in Indices : find_threats(i) # {}
    /\ \E i \in Indices : new_types[i] # None

\* C20: when the collisions of a frame are evaluated, every unit of a unit's predator
\* type that is now closer to it than MIN_DISTANCE is among the points the tree, built
\* before the movement, returns within 2 * MIN_DISTANCE of the unit's new position,
\* and so among the units check_collision tests
C20_PrefilterComplete ==
    pc = "collide" =>
        \A i \in Indices : \A j \in PredatorsInContact(i) :
            /\ j \in query_radius(i, MIN_DISTANCE * 2)
            /\ j \in Contacts(i)

\* a predator in contact after the movement whose indexed position, from before the
\* movement, is not within MIN_DISTANCE of the unit
C20_Witness ==
    /\ pc = "collide"
    /\ \E i \in Indices : \E j \in PredatorsInContact(i) :
          /\ spatial_tree[j] # <<units[j].x, units[j].y>>
          /\ IndexedDist2(i, j) >= Sq(MIN_DISTANCE * Scale)

\* number of units of type t in the unit list us
CountOf(us, t) == Cardinality({ i \in 1..Len(us) : us[i].unit_type = t % 3 })

\* C21: in every step taken while no unit of a type X exists, no unit of type X
\* appears, the number of units of X's prey type (X + 2) does not decrease and the
\* number of units of X's predator type (X + 1) does not increase
C21_ExtinctionPermanent ==
    [][\A X \in 0..2 :
          CountOf(units, X) = 0 =>
              /\ CountOf(units', X) = 0
              /\ CountOf(units', X + 2) >= CountOf(units, X + 2)
              /\ CountOf(units', X + 1) <= CountOf(units, X + 1)]_vars

\* a type that the run started with died out in an earlier frame, and in this frame a
\* unit of its predator type has been converted to its prey type
C21_Witness ==
    /\ pc = "limit"
    /\ \E X \in 0..2 :
          /\ initial_counts[X + 1] > 0
          /\ CountOf(frame_start, X) = 0
          /\ CountOf(units, X) = 0
          /\ CountOf(units, X + 1) < CountOf(frame_start, X + 1)
          /\ CountOf(units, X + 2) > CountOf(frame_start, X + 2)

====
